---- MODULE Spec2Model ----
(***************************************************************************)
(* Model of main.go: a single-shot pipeline that records audio until Enter *)
(* or SIGINT/SIGTERM, writes temp.wav, transcribes it, asks for a Bash     *)
(* command and prints it.  The main goroutine is modelled statement by     *)
(* statement (pc), the two watcher goroutines and the environment (stdin,  *)
(* signals) run interleaved with it.                                       *)
(***************************************************************************)
EXTENDS Integers, Sequences, FiniteSets, TLC

\* ---------------------------------------------------------------- bounds
\* Most chunks the capture loop reads in a modelled run.
MaxChunks == 2

\* ------------------------------------------------------ program constants
channels == 1
sampleRate == 44100
framesPerChunk == 1024
bitDepth == 16

\* ------------------------------------------------------------ input sets
\* Sample values the device fills a chunk with (the buffer starts zeroed).
SampleVals == {32767}
Signals == {"SIGINT", "SIGTERM"}
\* OPENAI_API_KEY as found in the process environment / in the .env file.
EnvVals == {"unset", "", "sk"}
DotenvVals == {"absent", "sk"}
\* Text of choices[0].message.content, as a sequence of characters.
Contents == { <<" ", "l", "s", " ">>, <<"l", "s">>, <<"\n">> }
WhiteSpace == {" ", "\n", "\t"}

VARIABLES
  pc,            \* position of the main goroutine in main/run
  proc,          \* "running", "exited" (os.Exit / return of main), "killed" (by a signal)
  exitStatus,    \* -1 while running or killed, else 0 or 1
  err,           \* the error run returns ("none" for nil)
  stdout,        \* lines printed by fmt.Printf
  apiKey,        \* local apiKey of run
  paInit,        \* portaudio: "no", "initialized", "terminated"
  streamState,   \* "none", "open", "started", "stopped", "closed"
  startCalled,   \* stream.Start() has returned nil
  stopCalled,    \* stream.Stop() has been called
  spinnerOn,     \* spinner running
  defers,        \* run's stack of deferred calls, last pushed first
  stopRecording, \* the int32 flag
  stdin,         \* "empty", "line" (Enter typed), "eof"
  stdinW,        \* stdin watcher goroutine: "none", "blocked", "done"
  notified,      \* signal.Notify has registered channel c
  c,             \* channel c, capacity 1
  sigW,          \* signal watcher goroutine: "none", "blocked", "done"
  in,            \* the chunk buffer handed to the stream
  recordedData,  \* the sample buffer
  tempExists,    \* temp.wav exists on disk
  tempCreated,   \* temp.wav was created by this run
  wav,           \* contents of temp.wav
  transcribeCalls, \* transcription requests issued
  chatCalls,     \* chat requests issued
  transcribedText,
  lateChunks     \* chunks appended since stopRecording became 1

vars == << pc, proc, exitStatus, err, stdout, apiKey, paInit,
           streamState, startCalled, stopCalled, spinnerOn, defers,
           stopRecording, stdin,
           stdinW, notified, c, sigW, in, recordedData, tempExists,
           tempCreated, wav, transcribeCalls, chatCalls, transcribedText,
           lateChunks >>

\* groups of variables, for UNCHANGED
resVars == << paInit, streamState, startCalled, stopCalled, spinnerOn, defers >>
bufVars == << in, recordedData, lateChunks >>
fileVars == << tempExists, tempCreated, wav >>
netVars == << transcribeCalls, chatCalls, transcribedText >>
outVars == << stdout, exitStatus, proc >>
watchVars == << stopRecording, stdin, stdinW, notified, c, sigW >>

NoWav == [complete |-> FALSE, numChans |-> 0, sampleRate |-> 0, bitDepth |-> 0,
          data |-> << >>]

Init ==
  /\ pc = "load"
  /\ proc = "running"
  /\ exitStatus = -1
  /\ err = "none"
  /\ stdout = << >>
  /\ apiKey = ""
  /\ paInit = "no"
  /\ streamState = "none"
  /\ startCalled = FALSE
  /\ stopCalled = FALSE
  /\ spinnerOn = FALSE
  /\ defers = << >>
  /\ stopRecording = 0
  /\ stdin = "empty"
  /\ stdinW = "none"
  /\ notified = FALSE
  /\ c = << >>
  /\ sigW = "none"
  /\ in = [i \in 1..framesPerChunk |-> 0]
  /\ recordedData = << >>
  /\ tempExists = FALSE
  /\ tempCreated = FALSE
  /\ wav = NoWav
  /\ transcribeCalls = 0
  /\ chatCalls = 0
  /\ transcribedText = ""
  /\ lateChunks = 0

\* ------------------------------------------------------------ pure helpers
RECURSIVE TrimLeft(_)
TrimLeft(s) ==
  IF s # << >> /\ Head(s) \in WhiteSpace THEN TrimLeft(Tail(s)) ELSE s

RECURSIVE TrimRight(_)
TrimRight(s) ==
  IF s # << >> /\ s[Len(s)] \in WhiteSpace
  THEN TrimRight(SubSeq(s, 1, Len(s) - 1)) ELSE s

\* strings.TrimSpace
TrimSpace(s) == TrimRight(TrimLeft(s))

\* int16ToIntSlice: out[i] = int(v), same length
int16ToIntSlice(samples) == [i \in 1..Len(samples) |-> samples[i]]

\* godotenv.Load followed by os.Getenv: .env never overrides a variable that
\* is present in the environment (even when empty)
Getenv(envKey, dotenvKey) ==
  IF envKey = "unset"
  THEN (IF dotenvKey = "absent" THEN "" ELSE dotenvKey)
  ELSE envKey

\* return e from run: the deferred calls run next
Return(e) == pc' = "returning" /\ err' = e

Running == proc = "running"

\* ------------------------------------------------------- main goroutine
\* LoadConfig without the check of line 96
LoadConfig_NoKeyCheck ==
  /\ Running /\ pc = "load"
  /\ \E envKey \in EnvVals, dotenvKey \in DotenvVals :
       apiKey' = Getenv(envKey, dotenvKey)
  /\ pc' = "pa_init" /\ err' = err
  /\ UNCHANGED << resVars, bufVars, fileVars, netVars, outVars, watchVars >>

\* run, lines 93-98: load .env, read the key, fail when it is empty
LoadConfig ==
  /\ Running /\ pc = "load"
  /\ \E envKey \in EnvVals, dotenvKey \in DotenvVals :
       apiKey' = Getenv(envKey, dotenvKey)
  /\ IF apiKey' = "" THEN Return("no api key")
     ELSE pc' = "pa_init" /\ err' = err
  /\ UNCHANGED << resVars, bufVars, fileVars, netVars, outVars, watchVars >>

\* run, lines 100-103
PaInitialize ==
  /\ Running /\ pc = "pa_init"
  /\ \/ /\ paInit' = "initialized"
        /\ defers' = << "Terminate" >> \o defers
        /\ pc' = "open" /\ err' = err
     \/ /\ Return("failed to initialize portaudio")
        /\ UNCHANGED << paInit, defers >>
  /\ UNCHANGED << streamState, startCalled, stopCalled, spinnerOn >>
  /\ UNCHANGED << apiKey, bufVars, fileVars, netVars, outVars, watchVars >>

\* run, lines 111-118
OpenStream ==
  /\ Running /\ pc = "open"
  /\ \/ /\ streamState' = "open"
        /\ defers' = << "Close" >> \o defers
        /\ pc' = "start" /\ err' = err
     \/ /\ Return("failed to open audio stream")
        /\ UNCHANGED << streamState, defers >>
  /\ UNCHANGED << paInit, startCalled, stopCalled, spinnerOn >>
  /\ UNCHANGED << apiKey, bufVars, fileVars, netVars, outVars, watchVars >>

\* run, lines 121-123
StartStream ==
  /\ Running /\ pc = "start"
  /\ \/ /\ streamState' = "started" /\ startCalled' = TRUE
        /\ pc' = "spinner" /\ err' = err
     \/ /\ Return("failed to start audio stream")
        /\ UNCHANGED << streamState, startCalled >>
  /\ UNCHANGED << paInit, stopCalled, spinnerOn, defers >>
  /\ UNCHANGED << apiKey, bufVars, fileVars, netVars, outVars, watchVars >>

\* run, lines 126-135: spinner started, its Stop deferred, the flag declared
StartSpinner ==
  /\ Running /\ pc = "spinner"
  /\ spinnerOn' = TRUE
  /\ defers' = << "SpinnerStop" >> \o defers
  /\ pc' = "go_stdin"
  /\ UNCHANGED << err, paInit, streamState, startCalled, stopCalled >>
  /\ UNCHANGED << apiKey, bufVars, fileVars, netVars, outVars, watchVars >>

\* run, lines 138-142: the go statement that starts the stdin watcher
GoStdinWatcher ==
  /\ Running /\ pc = "go_stdin"
  /\ stdinW' = "blocked"
  /\ pc' = "notify"
  /\ UNCHANGED << stopRecording, stdin, notified, c, sigW >>
  /\ UNCHANGED << err, apiKey, resVars, bufVars, fileVars, netVars, outVars >>

\* run, lines 145-146: make(chan os.Signal, 1); signal.Notify(c, SIGINT, SIGTERM)
Notify ==
  /\ Running /\ pc = "notify"
  /\ notified' = TRUE
  /\ pc' = "go_signal"
  /\ UNCHANGED << stopRecording, stdin, stdinW, c, sigW >>
  /\ UNCHANGED << err, apiKey, resVars, bufVars, fileVars, netVars, outVars >>

\* run, lines 147-150: the go statement that starts the signal watcher
GoSignalWatcher ==
  /\ Running /\ pc = "go_signal"
  /\ sigW' = "blocked"
  /\ pc' = "loop"
  /\ UNCHANGED << stopRecording, stdin, stdinW, notified, c >>
  /\ UNCHANGED << err, apiKey, resVars, bufVars, fileVars, netVars, outVars >>

\* LoopCheck that insists on at least one chunk: for stop == 0 || len(data) == 0
LoopCheck_AtLeastOneChunk ==
  /\ Running /\ pc = "loop"
  /\ IF stopRecording = 0 \/ recordedData = << >>
     THEN Len(recordedData) < MaxChunks * framesPerChunk /\ pc' = "read"
     ELSE pc' = "stop"
  /\ UNCHANGED << err, apiKey, resVars, bufVars, fileVars, netVars, outVars, watchVars >>

\* run, line 153: for atomic.LoadInt32(&stopRecording) == 0
LoopCheck ==
  /\ Running /\ pc = "loop"
  /\ IF stopRecording = 0
     THEN Len(recordedData) < MaxChunks * framesPerChunk /\ pc' = "read"
     ELSE pc' = "stop"
  /\ UNCHANGED << err, apiKey, resVars, bufVars, fileVars, netVars, outVars, watchVars >>

\* run, lines 154-157: stream.Read fills in; io.EOF is not an error here
ReadOk ==
  /\ Running /\ pc = "read"
  /\ \E v \in SampleVals : in' = [i \in 1..framesPerChunk |-> v]
  /\ pc' = "append"
  /\ UNCHANGED << recordedData, lateChunks >>
  /\ UNCHANGED << err, apiKey, resVars, fileVars, netVars, outVars, watchVars >>

\* ReadEOF that skips the append (continue on io.EOF)
ReadEOF_Continue ==
  /\ Running /\ pc = "read"
  /\ pc' = "loop"
  /\ UNCHANGED << err, apiKey, resVars, bufVars, fileVars, netVars, outVars, watchVars >>

\* run, line 154 with err == io.EOF: in keeps what it held
ReadEOF ==
  /\ Running /\ pc = "read"
  /\ pc' = "append"
  /\ UNCHANGED << err, apiKey, resVars, bufVars, fileVars, netVars, outVars, watchVars >>

\* run, lines 154-157 with any other error: s.Stop(); return
ReadError ==
  /\ Running /\ pc = "read"
  /\ spinnerOn' = FALSE
  /\ Return("error reading from audio stream")
  /\ UNCHANGED << paInit, streamState, startCalled, stopCalled, defers >>
  /\ UNCHANGED << apiKey, bufVars, fileVars, netVars, outVars, watchVars >>

\* run, line 159: recordedData = append(recordedData, in...)
AppendChunk ==
  /\ Running /\ pc = "append"
  /\ recordedData' = recordedData \o in
  /\ lateChunks' = IF stopRecording = 1 THEN lateChunks + 1 ELSE lateChunks
  /\ pc' = "loop"
  /\ UNCHANGED in
  /\ UNCHANGED << err, apiKey, resVars, fileVars, netVars, outVars, watchVars >>

\* run, lines 163-165
StopStream ==
  /\ Running /\ pc = "stop"
  /\ stopCalled' = TRUE
  /\ \/ /\ streamState' = "stopped"
        /\ pc' = "write_wav" /\ err' = err
     \/ /\ Return("failed to stop audio stream")
        /\ UNCHANGED streamState
  /\ UNCHANGED << paInit, startCalled, spinnerOn, defers >>
  /\ UNCHANGED << apiKey, bufVars, fileVars, netVars, outVars, watchVars >>

\* what wav.Encoder writes for samples: header fields and the data
Encode(samples, numChans, rate) ==
  [complete |-> TRUE, numChans |-> numChans, sampleRate |-> rate,
   bitDepth |-> bitDepth, data |-> int16ToIntSlice(samples)]

\* writeWavFile, lines 197-225, and its call in run, lines 168-172:
\* os.Create fails (no file); or the file is created and enc.Write or
\* enc.Close fails (file left behind, run returns before the Remove is
\* deferred); or the file is written and os.Remove is deferred
WriteWav ==
  /\ Running /\ pc = "write_wav"
  /\ \/ /\ Return("failed to write wav file")
        /\ UNCHANGED << fileVars, defers >>
     \/ /\ tempExists' = TRUE /\ tempCreated' = TRUE
        /\ wav' = NoWav
        /\ Return("failed to write wav file")
        /\ UNCHANGED defers
     \/ /\ tempExists' = TRUE /\ tempCreated' = TRUE
        /\ wav' = Encode(recordedData, channels, sampleRate)
        /\ defers' = << "Remove" >> \o defers
        /\ pc' = "transcribe" /\ err' = err
  /\ UNCHANGED << paInit, streamState, startCalled, stopCalled, spinnerOn >>
  /\ UNCHANGED << apiKey, bufVars, netVars, outVars, watchVars >>

\* transcribeAudio, lines 237-279: build the form and send the request
TranscribeSend ==
  /\ Running /\ pc = "transcribe"
  /\ \/ /\ transcribeCalls' = transcribeCalls + 1
        /\ pc' = "transcribe_wait" /\ err' = err
        /\ UNCHANGED spinnerOn
     \/ /\ spinnerOn' = FALSE
        /\ Return("error transcribing audio")
        /\ UNCHANGED transcribeCalls
  /\ UNCHANGED << chatCalls, transcribedText >>
  /\ UNCHANGED << paInit, streamState, startCalled, stopCalled, defers >>
  /\ UNCHANGED << apiKey, bufVars, fileVars, outVars, watchVars >>

\* TranscribeRecv that sends the request once more after a failure
TranscribeRecv_Retry ==
  /\ Running /\ pc = "transcribe_wait"
  /\ \/ /\ transcribedText' = "list files"
        /\ pc' = "generate" /\ err' = err
        /\ UNCHANGED spinnerOn
     \/ /\ IF transcribeCalls < 2
           THEN pc' = "transcribe" /\ err' = err /\ UNCHANGED spinnerOn
           ELSE spinnerOn' = FALSE /\ Return("error transcribing audio")
        /\ UNCHANGED transcribedText
  /\ UNCHANGED << transcribeCalls, chatCalls >>
  /\ UNCHANGED << paInit, streamState, startCalled, stopCalled, defers >>
  /\ UNCHANGED << apiKey, bufVars, fileVars, outVars, watchVars >>

\* transcribeAudio, lines 276-293, and run, lines 177-180: the response
TranscribeRecv ==
  /\ Running /\ pc = "transcribe_wait"
  /\ \/ /\ transcribedText' = "list files"
        /\ pc' = "generate" /\ err' = err
        /\ UNCHANGED spinnerOn
     \/ /\ spinnerOn' = FALSE
        /\ Return("error transcribing audio")
        /\ UNCHANGED transcribedText
  /\ UNCHANGED << transcribeCalls, chatCalls >>
  /\ UNCHANGED << paInit, streamState, startCalled, stopCalled, defers >>
  /\ UNCHANGED << apiKey, bufVars, fileVars, outVars, watchVars >>

\* generateBashCommand, lines 298-327: marshal and send the request
GenerateSend ==
  /\ Running /\ pc = "generate"
  /\ \/ /\ chatCalls' = chatCalls + 1
        /\ pc' = "generate_wait" /\ err' = err
        /\ UNCHANGED spinnerOn
     \/ /\ spinnerOn' = FALSE
        /\ Return("error generating command")
        /\ UNCHANGED chatCalls
  /\ UNCHANGED << transcribeCalls, transcribedText >>
  /\ UNCHANGED << paInit, streamState, startCalled, stopCalled, defers >>
  /\ UNCHANGED << apiKey, bufVars, fileVars, outVars, watchVars >>

\* generateBashCommand, lines 327-346, and run, lines 185-193: the response;
\* transport error, non-200, bad JSON and empty choices all fail; on success
\* the spinner is stopped and the trimmed command printed
GenerateRecv ==
  /\ Running /\ pc = "generate_wait"
  /\ spinnerOn' = FALSE
  /\ \/ /\ \E content \in Contents :
             stdout' = Append(stdout, [kind |-> "command", text |-> TrimSpace(content)])
        /\ Return("none")
     \/ /\ Return("error generating command")
        /\ UNCHANGED stdout
  /\ UNCHANGED << exitStatus, proc >>
  /\ UNCHANGED << paInit, streamState, startCalled, stopCalled, defers >>
  /\ UNCHANGED << apiKey, bufVars, fileVars, netVars, watchVars >>

\* the deferred calls of run, last deferred first (lines 172, 132, 118, 103)
RunDeferred ==
  /\ Running /\ pc = "returning" /\ defers # << >>
  /\ defers' = Tail(defers)
  /\ tempExists' = IF Head(defers) = "Remove" THEN FALSE ELSE tempExists
  /\ spinnerOn' = IF Head(defers) = "SpinnerStop" THEN FALSE ELSE spinnerOn
  /\ streamState' = IF Head(defers) = "Close" THEN "closed" ELSE streamState
  /\ paInit' = IF Head(defers) = "Terminate" THEN "terminated" ELSE paInit
  /\ UNCHANGED << pc, err, startCalled, stopCalled, tempCreated, wav >>
  /\ UNCHANGED << apiKey, bufVars, netVars, outVars, watchVars >>

\* MainExit without the os.Exit(1) of line 88
MainExit_NoExitCode ==
  /\ Running /\ pc = "returning" /\ defers = << >>
  /\ IF err # "none"
     THEN stdout' = Append(stdout, [kind |-> "error", text |-> err])
     ELSE stdout' = stdout
  /\ exitStatus' = 0
  /\ proc' = "exited"
  /\ pc' = "exit"
  /\ UNCHANGED << err, apiKey, resVars, bufVars, fileVars, netVars, watchVars >>

\* main, lines 85-90: print the error and os.Exit(1), or return (status 0)
MainExit ==
  /\ Running /\ pc = "returning" /\ defers = << >>
  /\ IF err # "none"
     THEN /\ stdout' = Append(stdout, [kind |-> "error", text |-> err])
          /\ exitStatus' = 1
     ELSE /\ stdout' = stdout
          /\ exitStatus' = 0
  /\ proc' = "exited"
  /\ pc' = "exit"
  /\ UNCHANGED << err, apiKey, resVars, bufVars, fileVars, netVars, watchVars >>

\* ---------------------------------------------------- watcher goroutines
\* lines 140-141: ReadString returns on a line or on end of input, then Store
StdinWatcher ==
  /\ Running /\ stdinW = "blocked" /\ stdin # "empty"
  /\ stdinW' = "done"
  /\ stopRecording' = 1
  /\ UNCHANGED << stdin, notified, c, sigW >>
  /\ UNCHANGED << pc, err, apiKey, resVars, bufVars, fileVars, netVars, outVars >>

\* SignalWatcher that toggles the flag instead of setting it
SignalWatcher_Toggle ==
  /\ Running /\ sigW = "blocked" /\ c # << >>
  /\ c' = Tail(c)
  /\ sigW' = "done"
  /\ stopRecording' = 1 - stopRecording
  /\ UNCHANGED << stdin, stdinW, notified >>
  /\ UNCHANGED << pc, err, apiKey, resVars, bufVars, fileVars, netVars, outVars >>

\* lines 148-149: <-c, then Store
SignalWatcher ==
  /\ Running /\ sigW = "blocked" /\ c # << >>
  /\ c' = Tail(c)
  /\ sigW' = "done"
  /\ stopRecording' = 1
  /\ UNCHANGED << stdin, stdinW, notified >>
  /\ UNCHANGED << pc, err, apiKey, resVars, bufVars, fileVars, netVars, outVars >>

\* ------------------------------------------------------------ environment
\* the user presses Enter, or standard input ends
StdinInput ==
  /\ Running /\ stdin = "empty"
  /\ stdin' \in {"line", "eof"}
  /\ UNCHANGED << stopRecording, stdinW, notified, c, sigW >>
  /\ UNCHANGED << pc, err, apiKey, resVars, bufVars, fileVars, netVars, outVars >>

\* DeliverSignal for a handler that is dropped (signal.Stop) once the watcher
\* has taken its one signal
DeliverSignal_StopAfterFirst(sig) ==
  /\ Running
  /\ IF notified /\ sigW # "done"
     THEN /\ c' = IF Len(c) < 1 THEN Append(c, sig) ELSE c
          /\ UNCHANGED outVars
     ELSE /\ proc' = "killed"
          /\ UNCHANGED << c, stdout, exitStatus >>
  /\ UNCHANGED << stopRecording, stdin, stdinW, notified, sigW >>
  /\ UNCHANGED << pc, err, apiKey, resVars, bufVars, fileVars, netVars >>

\* the Go runtime's handling of a SIGINT or SIGTERM: with signal.Notify in
\* force (line 146) a non-blocking send on c (dropped when c is full);
\* without it the default action, which ends the process
DeliverSignal(sig) ==
  /\ Running
  /\ IF notified
     THEN /\ c' = IF Len(c) < 1 THEN Append(c, sig) ELSE c
          /\ UNCHANGED outVars
     ELSE /\ proc' = "killed"
          /\ UNCHANGED << c, stdout, exitStatus >>
  /\ UNCHANGED << stopRecording, stdin, stdinW, notified, sigW >>
  /\ UNCHANGED << pc, err, apiKey, resVars, bufVars, fileVars, netVars >>

Signal == \E sig \in Signals : DeliverSignal(sig)

Next ==
  \/ LoadConfig \/ PaInitialize \/ OpenStream \/ StartStream \/ StartSpinner
  \/ GoStdinWatcher \/ Notify \/ GoSignalWatcher
  \/ LoopCheck \/ ReadOk \/ ReadEOF \/ ReadError \/ AppendChunk
  \/ StopStream \/ WriteWav
  \/ TranscribeSend \/ TranscribeRecv \/ GenerateSend \/ GenerateRecv
  \/ RunDeferred \/ MainExit
  \/ StdinWatcher \/ SignalWatcher
  \/ StdinInput \/ Signal

Spec == Init /\ [][Next]_vars

\* the capture loop and the watchers are scheduled, and stream.Read returns
Capture == LoopCheck \/ ReadOk \/ ReadEOF \/ ReadError \/ AppendChunk
FairSpec ==
  /\ Spec
  /\ WF_vars(Capture) /\ WF_vars(StdinWatcher) /\ WF_vars(SignalWatcher)

\* ------------------------------------------------------------------ stages
\* the orchestrator's state, read off the position of run
Stage ==
  IF err # "none" THEN "Error"
  ELSE IF pc \in {"load", "pa_init", "open", "start"} THEN "Init"
  ELSE IF pc \in {"spinner", "go_stdin", "notify", "go_signal",
                  "loop", "read", "append", "stop"} THEN "Recording"
  ELSE IF pc \in {"write_wav", "transcribe", "transcribe_wait"} THEN "Transcribing"
  ELSE IF pc \in {"generate", "generate_wait"} THEN "Generating"
  ELSE "Done"

Rank(st) ==
  CASE st = "Init" -> 0 [] st = "Recording" -> 1 [] st = "Transcribing" -> 2
    [] st = "Generating" -> 3 [] st = "Done" -> 4 [] st = "Error" -> 5

InCaptureLoop == Running /\ pc \in {"loop", "read", "append"}

HasCommand(out) == \E i \in 1..Len(out) : out[i].kind = "command"

Trimmed(t) == t = << >> \/ (Head(t) \notin WhiteSpace /\ t[Len(t)] \notin WhiteSpace)

\* ------------------------------------------------------------------ claims

\* C1 (as claimed): when the process exits, a temp.wav created by this run
\* has been removed.
C1_TempRemovedOnExit ==
  (proc = "exited" /\ tempCreated) => ~tempExists

\* C2 (as claimed): when the process exits after the stream was started,
\* stream.Stop has been called and the stream is closed.
C2_StreamStoppedAndClosed ==
  (proc = "exited" /\ startCalled) => (stopCalled /\ streamState = "closed")

\* C3: with an empty key run fails with the configuration error and status
\* 1, and nothing was initialized, opened, started, watched, written or sent.
C3_NoKeyNoDevice ==
  (pc # "load" /\ apiKey = "") =>
     /\ err = "no api key"
     /\ paInit = "no" /\ streamState = "none" /\ ~startCalled
     /\ stdinW = "none" /\ sigW = "none" /\ ~notified
     /\ ~tempCreated /\ ~tempExists
     /\ transcribeCalls = 0 /\ chatCalls = 0
     /\ (proc = "exited" => exitStatus = 1)

C3_Witness == proc = "exited" /\ apiKey = "" /\ exitStatus = 1

\* C4: once the flag is true the loop starts no new iteration, at most one
\* chunk is appended after the flag became true, and a delivered Enter line
\* or handled signal leads to the loop's exit.
C4_StopsWithinOneChunk ==
  /\ [](lateChunks <= 1)
  /\ [][(pc = "loop" /\ stopRecording = 1) => pc' # "read"]_vars
  /\ ((InCaptureLoop /\ (stdin = "line" \/ c # << >> \/ sigW = "done"))
        ~> ~InCaptureLoop)

C4_Witness == lateChunks = 1 /\ pc = "stop" /\ Len(recordedData) = 2 * framesPerChunk

\* C5 (as claimed): a signal delivered between the start of the stream and
\* the exit of the capture loop does not end the process.
C5_SignalNeverKillsWhileRecording ==
  [][(Signal /\ startCalled /\ Stage = "Recording") => proc' = "running"]_vars

\* C6: an exited run either printed exactly the trimmed command with status
\* 0 after every stage succeeded, or exactly one error message with status 1.
C6_OneOfTwoOutcomes ==
  proc = "exited" =>
    \/ /\ exitStatus = 0 /\ err = "none"
       /\ Len(stdout) = 1 /\ stdout[1].kind = "command" /\ Trimmed(stdout[1].text)
       /\ startCalled /\ stopCalled /\ streamState = "closed"
       /\ wav.complete /\ transcribeCalls = 1 /\ transcribedText # ""
       /\ chatCalls = 1
    \/ /\ exitStatus = 1 /\ err # "none"
       /\ Len(stdout) = 1 /\ stdout[1].kind = "error"
       /\ ~HasCommand(stdout)

C6_Witness ==
  proc = "exited" /\ exitStatus = 0 /\ stdout = << [kind |-> "command", text |-> << "l", "s" >>] >>

\* C7: the stage only moves forward one step at a time or to Error, Done and
\* Error are final; a request goes out at most once, the transcription
\* request only with the stream stopped and the whole buffer in temp.wav,
\* the chat request only after a transcription, the command only after the
\* chat response; the buffer does not change once a request has been sent.
C7_StagesInOrder ==
  /\ [](transcribeCalls <= 1 /\ chatCalls <= 1)
  /\ [][/\ Rank(Stage') \in {Rank(Stage), Rank(Stage) + 1, 5}
        /\ (Stage = "Done" => Stage' = "Done")
        /\ (transcribeCalls' # transcribeCalls =>
              /\ streamState = "stopped" /\ pc = "transcribe"
              /\ tempExists /\ wav.complete /\ wav.data = recordedData)
        /\ (transcribeCalls >= 1 => recordedData' = recordedData)
        /\ (chatCalls' # chatCalls =>
              transcribeCalls = 1 /\ transcribedText # "" /\ pc = "generate")
        /\ (HasCommand(stdout') =>
              chatCalls = 1 /\ pc \in {"generate_wait", "returning", "exit"})
       ]_vars

C7_Witness ==
  Stage = "Done" /\ proc = "exited" /\ transcribeCalls = 1 /\ chatCalls = 1

\* C8: the flag starts at 0, never goes back from 1 to 0, and the loop's
\* check taken with the flag at 1 leaves the loop.
C8_FlagMonotonic ==
  /\ stopRecording = 0
  /\ [](stopRecording \in {0, 1})
  /\ [][stopRecording = 1 => stopRecording' = 1]_vars
  /\ [][(pc = "loop" /\ stopRecording = 1 /\ pc' # pc) => pc' = "stop"]_vars

C8_Witness == stopRecording = 1 /\ stdinW = "done" /\ sigW = "done"

\* C9: the buffer's length is a multiple of 1024; it only grows, by exactly
\* 1024 samples at the append of an iteration, which every read that did
\* not abort reaches; nothing changes it after the loop; a written temp.wav
\* holds exactly the buffer, 1 channel, 44100 Hz.
C9_WholeChunksOnly ==
  /\ [](Len(recordedData) % 1024 = 0)
  /\ [](wav.complete =>
          /\ wav.data = recordedData
          /\ wav.numChans = 1 /\ wav.sampleRate = 44100)
  /\ [][/\ (recordedData' # recordedData =>
              /\ pc = "append"
              /\ Len(recordedData') = Len(recordedData) + 1024
              /\ SubSeq(recordedData', 1, Len(recordedData)) = recordedData)
        /\ (pc = "append" /\ pc' # pc =>
              Len(recordedData') = Len(recordedData) + 1024)
        /\ (pc = "read" /\ pc' # pc => pc' \in {"append", "returning"})
        /\ (~InCaptureLoop => recordedData' = recordedData)
       ]_vars

C9_Witness ==
  /\ wav.complete /\ Len(wav.data) = 2 * 1024
  /\ recordedData[1] = 0 /\ recordedData[1025] = 32767

\* C10: once registered the handler stays registered, the watcher takes one
\* signal, and a signal delivered while the handler is registered changes
\* nothing but the channel c; what the watcher does with it is set the flag.
C10_SignalOnlySetsFlag ==
  /\ [][notified => notified']_vars
  /\ [][sigW = "done" => sigW' = "done"]_vars
  /\ [][(notified /\ Signal) =>
          /\ proc' = "running"
          /\ UNCHANGED << pc, err, apiKey, resVars, bufVars, fileVars, netVars,
                          outVars, stopRecording, stdin, stdinW, notified, sigW >>]_vars
  /\ [][c' # c =>
          UNCHANGED << pc, err, apiKey, resVars, bufVars, fileVars, netVars,
                       outVars, stdin, stdinW, notified >>]_vars

C10_Witness ==
  notified /\ sigW = "done" /\ c # << >> /\ pc = "transcribe_wait" /\ Running

====
